---------------------------- MODULE Spec2Model ----------------------------
(***************************************************************************)
(* Model of frank-ops/frank-ops-aws:                                       *)
(*   lambda_hello.py       the strict echo handler                         *)
(*   send_hello_batch.py   the logging echo handler                        *)
(*   lambda_boto3_test.py  the invoker script (create, invoke, decode)     *)
(*                                                                         *)
(* Python values are modelled as follows.  A str is a sequence of          *)
(* one-character strings.  A value is a record [t, s]: a str value or      *)
(* None.  A dict is a sequence of <<key, value>> pairs with distinct keys, *)
(* in insertion order; two dicts are equal (Python ==) when they hold the  *)
(* same keys with the same values, whatever the order.                     *)
(***************************************************************************)
EXTENDS Integers, Sequences, FiniteSets, TLC

(***************************************************************************)
(* Bounds of the model.                                                    *)
(***************************************************************************)
\* longest str drawn as a value of an event given to the handlers
MaxEventStr == 1
\* longest str drawn as a field of a payload that is serialized
MaxLen == 2
\* number of consecutive runs of the invoker script
MaxRuns == 3

\* characters the drawn strs are made of: a plain one and the three that
\* json.dumps escapes
Alphabet == {"a", "\"", "\\", "\n"}

\* characters the values of a drawn event are made of
EventAlphabet == {"a", "\""}

RECURSIVE StrsOfLen(_, _)
StrsOfLen(n, chars) ==
    IF n = 0 THEN {<<>>}
    ELSE {Append(s, c) : s \in StrsOfLen(n - 1, chars), c \in chars}

StrsUpTo(n, chars) == UNION {StrsOfLen(k, chars) : k \in 0..n}

(***************************************************************************)
(* Python values and dicts.                                                *)
(***************************************************************************)
PyStr(s) == [t |-> "str", s |-> s]
PyNone == [t |-> "None", s |-> <<>>]

\* the keys the scripts name
K_correlationID == <<"c","o","r","r","e","l","a","t","i","o","n","I","D">>
K_message == <<"m","e","s","s","a","g","e">>
\* a key the scripts never name
K_extra == <<"e","x","t","r","a">>

DictKeys(d) == {d[i][1] : i \in 1..Len(d)}

\* k in d
DictHas(d, k) == k \in DictKeys(d)

\* the value stored under k (k in d)
DictAt(d, k) == d[CHOOSE i \in 1..Len(d) : d[i][1] = k][2]

\* d.get(k): None when k is absent
DictGet(d, k) == IF DictHas(d, k) THEN DictAt(d, k) ELSE PyNone

\* d[k] = v: replaces in place, or appends
DictSet(d, k, v) ==
    IF DictHas(d, k)
    THEN [i \in 1..Len(d) |-> IF d[i][1] = k THEN <<k, v>> ELSE d[i]]
    ELSE Append(d, <<k, v>>)

(***************************************************************************)
(* The outcome of a call: a returned dict, or a raised exception.          *)
(***************************************************************************)
Return(d) == [returned |-> TRUE, ret |-> d, exc |-> "none", key |-> <<>>]
Raise(e, k) == [returned |-> FALSE, ret |-> <<>>, exc |-> e, key |-> k]
NotCalled == [returned |-> FALSE, ret |-> <<>>, exc |-> "notcalled", key |-> <<>>]

(***************************************************************************)
(* lambda_hello.handler: event["correlationID"] is evaluated first, then   *)
(* event["message"]; a subscript of an absent key raises KeyError.         *)
(***************************************************************************)
\* (faulty variants: absent keys read as None; the values swapped; the
\* whole event returned)
strict_handler_no_check(event) ==
    Return(<< <<K_correlationID, DictGet(event, K_correlationID)>>,
              <<K_message, DictGet(event, K_message)>> >>)

strict_handler_swapped(event) ==
    IF ~DictHas(event, K_correlationID) THEN Raise("KeyError", K_correlationID)
    ELSE IF ~DictHas(event, K_message) THEN Raise("KeyError", K_message)
    ELSE Return(<< <<K_correlationID, DictAt(event, K_message)>>,
                   <<K_message, DictAt(event, K_correlationID)>> >>)

strict_handler_whole_event(event) ==
    IF ~DictHas(event, K_correlationID) THEN Raise("KeyError", K_correlationID)
    ELSE IF ~DictHas(event, K_message) THEN Raise("KeyError", K_message)
    ELSE Return(event)

strict_handler(event) ==
    IF ~DictHas(event, K_correlationID) THEN Raise("KeyError", K_correlationID)
    ELSE IF ~DictHas(event, K_message) THEN Raise("KeyError", K_message)
    ELSE Return(<< <<K_correlationID, DictAt(event, K_correlationID)>>,
                   <<K_message, DictAt(event, K_message)>> >>)

(***************************************************************************)
(* send_hello_batch.handler: prints the event, then projects with          *)
(* event.get, which yields None for an absent key.                         *)
(***************************************************************************)
\* (faulty variant: subscripts instead of event.get)
logging_handler_subscript(event) == strict_handler(event)

logging_handler(event) ==
    Return(<< <<K_correlationID, DictGet(event, K_correlationID)>>,
              <<K_message, DictGet(event, K_message)>> >>)

\* the line the logging handler prints
logging_handler_print(event) == [text |-> "Lambda invoked! Event:", arg |-> event]

(***************************************************************************)
(* json.dumps (default options: ensure_ascii, separators ", " and ": ").   *)
(* A str is written between quotes with ", \ and the control characters    *)
(* escaped; None is written null; a dict is written in insertion order.    *)
(***************************************************************************)
RECURSIVE Concat(_)
Concat(ss) == IF ss = <<>> THEN <<>> ELSE Head(ss) \o Concat(Tail(ss))

\* (faulty variant: nothing is escaped)
EscapeCharRaw(c) == <<c>>

EscapeChar(c) ==
    CASE c = "\"" -> <<"\\", "\"">>
      [] c = "\\" -> <<"\\", "\\">>
      [] c = "\n" -> <<"\\", "n">>
      [] OTHER -> <<c>>

DumpsStr(s) == <<"\"">> \o Concat([i \in 1..Len(s) |-> EscapeChar(s[i])]) \o <<"\"">>

DumpsValue(v) == IF v.t = "None" THEN <<"n","u","l","l">> ELSE DumpsStr(v.s)

DumpsItem(p) == DumpsStr(p[1]) \o <<":", " ">> \o DumpsValue(p[2])

RECURSIVE DumpsItems(_)
DumpsItems(d) ==
    IF d = <<>> THEN <<>>
    ELSE IF Len(d) = 1 THEN DumpsItem(d[1])
    ELSE DumpsItem(d[1]) \o <<",", " ">> \o DumpsItems(Tail(d))

json_dumps(d) == <<"{">> \o DumpsItems(d) \o <<"}">>

(***************************************************************************)
(* json.loads on a document whose top level is an object with str or null  *)
(* members (the wire format).  Anything else is a JSONDecodeError.         *)
(***************************************************************************)
At(s, i) == IF i \in 1..Len(s) THEN s[i] ELSE "EOF"

Whitespace == {" ", "\n"}

RECURSIVE SkipWs(_, _)
SkipWs(s, i) == IF At(s, i) \in Whitespace THEN SkipWs(s, i + 1) ELSE i

ParseFail == [ok |-> FALSE, val |-> <<>>, next |-> 0]

\* the character an escape sequence \e stands for
Unescape(e) ==
    CASE e = "\"" -> "\""
      [] e = "\\" -> "\\"
      [] e = "n" -> "\n"
      [] OTHER -> "EOF"

\* scans a str literal from position i, just after its opening quote
RECURSIVE ScanString(_, _, _)
ScanString(s, i, acc) ==
    LET c == At(s, i) IN
    IF c = "EOF" THEN ParseFail
    ELSE IF c = "\"" THEN [ok |-> TRUE, val |-> acc, next |-> i + 1]
    ELSE IF c = "\\"
         THEN IF Unescape(At(s, i + 1)) = "EOF" THEN ParseFail
              ELSE ScanString(s, i + 2, Append(acc, Unescape(At(s, i + 1))))
    ELSE IF c = "\n" THEN ParseFail
    ELSE ScanString(s, i + 1, Append(acc, c))

ParseValue(s, i) ==
    IF At(s, i) = "\""
    THEN LET r == ScanString(s, i + 1, <<>>) IN
         IF r.ok THEN [ok |-> TRUE, val |-> PyStr(r.val), next |-> r.next]
         ELSE [ok |-> FALSE, val |-> PyNone, next |-> 0]
    ELSE IF <<At(s, i), At(s, i + 1), At(s, i + 2), At(s, i + 3)>> = <<"n","u","l","l">>
    THEN [ok |-> TRUE, val |-> PyNone, next |-> i + 4]
    ELSE [ok |-> FALSE, val |-> PyNone, next |-> 0]

\* parses members from position i (a key is expected) into the dict acc
RECURSIVE ParseMembers(_, _, _)
ParseMembers(s, i, acc) ==
    LET i1 == SkipWs(s, i)
        k == ScanString(s, i1 + 1, <<>>)
        i2 == SkipWs(s, k.next)
        v == ParseValue(s, SkipWs(s, i2 + 1))
        i4 == SkipWs(s, v.next)
    IN  IF At(s, i1) # "\"" THEN ParseFail
        ELSE IF ~k.ok THEN ParseFail
        ELSE IF At(s, i2) # ":" THEN ParseFail
        ELSE IF ~v.ok THEN ParseFail
        ELSE IF At(s, i4) = ","
             THEN ParseMembers(s, i4 + 1, DictSet(acc, k.val, v.val))
        ELSE IF At(s, i4) = "}"
             THEN [ok |-> TRUE, val |-> DictSet(acc, k.val, v.val), next |-> i4 + 1]
        ELSE ParseFail

ParseObject(s, i) ==
    IF At(s, i) # "{" THEN ParseFail
    ELSE IF At(s, SkipWs(s, i + 1)) = "}"
         THEN [ok |-> TRUE, val |-> <<>>, next |-> SkipWs(s, i + 1) + 1]
    ELSE ParseMembers(s, i + 1, <<>>)

json_loads(s) ==
    LET r == ParseObject(s, SkipWs(s, 1)) IN
    IF r.ok /\ SkipWs(s, r.next) > Len(s) THEN Return(r.val)
    ELSE Raise("JSONDecodeError", <<>>)

(***************************************************************************)
(* State.                                                                  *)
(*   event, strictOut, loggingOut, printed: one event and what each        *)
(*     handler did with it (the handlers called directly).                 *)
(*   obj, wire, decoded, jpc: a payload, its JSON text and the text        *)
(*     decoded again.                                                      *)
(*   The rest is the invoker script and the Lambda service it talks to:    *)
(*   functions: the service's functions (it outlives the runs);            *)
(*   pc, code_bytes, response, resp, data, stdout: the script's position,  *)
(*     its variables and what it printed, all fresh in every run;          *)
(*   sent: the payload of the invoke call in flight;                       *)
(*   createExc, invokeExc: what each call raised; exception: the uncaught  *)
(*     exception that ended the run;                                       *)
(*   runs, creator, createCalls, invokeCalls: the number of runs started,  *)
(*     the run that created the function, and the calls of this run.       *)
(***************************************************************************)
VARIABLES event, strictOut, loggingOut, printed,
          obj, wire, decoded, jpc,
          functions, pc, code_bytes, response, sent, resp, data, stdout,
          createExc, invokeExc, exception,
          runs, creator, createCalls, invokeCalls

handlerVars == <<event, strictOut, loggingOut, printed>>
jsonVars == <<obj, wire, decoded, jpc>>
invokerVars == <<functions, pc, code_bytes, response, sent, resp, data, stdout,
                 createExc, invokeExc, exception,
                 runs, creator, createCalls, invokeCalls>>
vars == <<handlerVars, jsonVars, invokerVars>>

(***************************************************************************)
(* The handlers called directly on an event.                               *)
(***************************************************************************)
EventKeys == {K_correlationID, K_message, K_extra}
EventVals == {PyStr(s) : s \in StrsUpTo(MaxEventStr, EventAlphabet)} \cup {PyNone}

KeySeqs ==
    {ks \in UNION {[1..n -> EventKeys] : n \in 0..Cardinality(EventKeys)} :
        \A i, j \in DOMAIN ks : ks[i] = ks[j] => i = j}

\* every dict over the three keys, in every insertion order
Events ==
    UNION {{[i \in DOMAIN ks |-> <<ks[i], vs[i]>>] : vs \in [DOMAIN ks -> EventVals]} :
             ks \in KeySeqs}

InvokerIdle ==
    /\ functions = {}
    /\ pc = "idle"
    /\ code_bytes = "unset"
    /\ response = "unset"
    /\ sent = <<>>
    /\ resp = <<>>
    /\ data = <<>>
    /\ stdout = <<>>
    /\ createExc = "notcalled"
    /\ invokeExc = "notcalled"
    /\ exception = "none"
    /\ runs = 0
    /\ creator = 0
    /\ createCalls = 0
    /\ invokeCalls = 0

JsonIdle ==
    /\ obj = <<>>
    /\ wire = <<>>
    /\ decoded = NotCalled
    /\ jpc = "idle"

HandlerIdle ==
    /\ event = <<>>
    /\ strictOut = NotCalled
    /\ loggingOut = NotCalled
    /\ printed = <<>>

InitHandler ==
    /\ event \in Events
    /\ strictOut = NotCalled
    /\ loggingOut = NotCalled
    /\ printed = <<>>
    /\ JsonIdle
    /\ InvokerIdle

CallStrict ==
    /\ strictOut = NotCalled
    /\ strictOut' = strict_handler(event)
    /\ UNCHANGED <<event, loggingOut, printed, jsonVars, invokerVars>>

CallLogging ==
    /\ loggingOut = NotCalled
    /\ printed' = Append(printed, logging_handler_print(event))
    /\ loggingOut' = logging_handler(event)
    /\ UNCHANGED <<event, strictOut, jsonVars, invokerVars>>

NextHandler == CallStrict \/ CallLogging

SpecHandler == InitHandler /\ [][NextHandler]_vars

(***************************************************************************)
(* A payload serialized and decoded again.                                 *)
(***************************************************************************)
Payloads ==
    UNION {{<< <<K_message, PyStr(m)>>, <<K_correlationID, PyStr(c)>> >>,
            << <<K_correlationID, PyStr(c)>>, <<K_message, PyStr(m)>> >>} :
             m \in StrsUpTo(MaxLen, Alphabet), c \in StrsUpTo(MaxLen, Alphabet)}

InitJson ==
    /\ obj \in Payloads
    /\ wire = <<>>
    /\ decoded = NotCalled
    /\ jpc = "dumps"
    /\ HandlerIdle
    /\ InvokerIdle

Serialize ==
    /\ jpc = "dumps"
    /\ wire' = json_dumps(obj)
    /\ jpc' = "loads"
    /\ UNCHANGED <<obj, decoded, handlerVars, invokerVars>>

Deserialize ==
    /\ jpc = "loads"
    /\ decoded' = json_loads(wire)
    /\ jpc' = "done"
    /\ UNCHANGED <<obj, wire, handlerVars, invokerVars>>

NextJson == Serialize \/ Deserialize

SpecJson == InitJson /\ [][NextJson]_vars

(***************************************************************************)
(* The invoker script, lambda_boto3_test.py, run again and again against   *)
(* one Lambda service.                                                     *)
(***************************************************************************)
FunctionName == "helloLambda"

\* the archives lambda_hello.zip may hold when a run reads it: builds of
\* lambda_hello.py that differ byte for byte
ZipFiles == {"lambda_hello.zip#1", "lambda_hello.zip#2"}

\* the arguments of create_function
FunctionConfig(code) ==
    [FunctionName |-> FunctionName,
     Runtime |-> "python3.11",
     Role |-> "arn:aws:iam::000000000000:role/lambda-role",
     Handler |-> "lambda_hello.handler",
     Code |-> code]

Exists == \E f \in functions : f.FunctionName = FunctionName

TheFunction == CHOOSE f \in functions : f.FunctionName = FunctionName

\* failures of a call other than the conflict: the endpoint does not answer,
\* or the service answers with an error
Faults == {"EndpointConnectionError", "ServiceException"}

\* what create_function can raise ("none": it returns)
CreateOutcomes ==
    (IF Exists THEN {"ResourceConflictException"} ELSE {"none"}) \cup Faults

\* what invoke can raise ("none": it returns)
InvokeOutcomes ==
    (IF Exists THEN {"none"} ELSE {"ResourceNotFoundException"}) \cup Faults

\* the payload the script sends
payload ==
    << <<K_message, PyStr(<<"h","e","l","l","o"," ","w","o","r","l","d">>)>>,
       <<K_correlationID, PyStr(<<"1","2","3">>)>> >>

\* the service runs the function's entry point on the decoded payload and
\* answers with the result as JSON
K_errorType == <<"e","r","r","o","r","T","y","p","e">>

ErrorPayload(e) ==
    << <<K_errorType, PyStr(IF e = "KeyError" THEN <<"K","e","y","E","r","r","o","r">>
                                              ELSE <<"E","r","r","o","r">>)>> >>

RunFunction(f, body) ==
    LET ev == json_loads(body)
        out == IF f.Handler = "lambda_hello.handler" THEN strict_handler(ev.ret)
               ELSE logging_handler(ev.ret)
    IN  IF ~ev.returned THEN json_dumps(ErrorPayload(ev.exc))
        ELSE IF ~out.returned THEN json_dumps(ErrorPayload(out.exc))
        ELSE json_dumps(out.ret)

\* the first call of a run: the try block precedes the invoke
\* (faulty variant: the invoke comes first)
first_step_invoke == "invoke"

first_step == "create"

\* except lambda_client.exceptions.ResourceConflictException
\* (faulty variants: no except clause; a bare except)
except_catches_nothing(e) == FALSE

except_catches_everything(e) == TRUE

except_catches(e) == e = "ResourceConflictException"

\* the except body prints and leaves the function as it is
\* (faulty variant: the except body redeploys the archive)
on_conflict_update(fns, code) ==
    {IF f.FunctionName = FunctionName THEN [f EXCEPT !.Code = code] ELSE f : f \in fns}

on_conflict(fns, code) == fns

on_conflict_print == [text |-> "Lambda helloLambda already exists, skipping creation",
                      arg |-> <<>>]

\* no try around invoke: what it raises ends the run
\* (faulty variant: the invoke is retried)
after_invoke_error_retry == "invoke"

after_invoke_error == "failed"

InitInvoker ==
    /\ InvokerIdle
    /\ HandlerIdle
    /\ JsonIdle

\* lines 7-18: a new process; the client is built and the archive read
StartRun ==
    /\ pc \in {"idle", "done", "failed"}
    /\ runs < MaxRuns
    /\ runs' = runs + 1
    /\ \E z \in ZipFiles : code_bytes' = z
    /\ pc' = first_step
    /\ response' = "unset"
    /\ sent' = <<>>
    /\ resp' = <<>>
    /\ data' = <<>>
    /\ stdout' = <<>>
    /\ createExc' = "notcalled"
    /\ invokeExc' = "notcalled"
    /\ exception' = "none"
    /\ createCalls' = 0
    /\ invokeCalls' = 0
    /\ UNCHANGED <<functions, creator, handlerVars, jsonVars>>

\* lines 20-29: create_function inside try / except ResourceConflictException
CreateFunction ==
    /\ pc = "create"
    /\ \E e \in CreateOutcomes :
        /\ createExc' = e
        /\ createCalls' = createCalls + 1
        /\ functions' =
              IF e = "none" THEN functions \cup {FunctionConfig(code_bytes)}
              ELSE IF except_catches(e) THEN on_conflict(functions, code_bytes)
              ELSE functions
        /\ creator' = IF e = "none" THEN runs ELSE creator
        /\ response' = IF e = "none" THEN "FunctionConfiguration" ELSE response
        /\ stdout' = IF e # "none" /\ except_catches(e)
                     THEN Append(stdout, on_conflict_print) ELSE stdout
        /\ pc' = IF e = "none" \/ except_catches(e) THEN "invoke" ELSE "failed"
        /\ exception' = IF e = "none" \/ except_catches(e) THEN "none" ELSE e
    /\ UNCHANGED <<code_bytes, sent, resp, data, invokeExc, runs, invokeCalls,
                   handlerVars, jsonVars>>

\* lines 32-36: the payload is serialized and the invoke call issued
IssueInvoke ==
    /\ pc = "invoke"
    /\ sent' = json_dumps(payload)
    /\ invokeCalls' = invokeCalls + 1
    /\ pc' = "invoking"
    /\ UNCHANGED <<functions, code_bytes, response, resp, data, stdout, createExc,
                   invokeExc, exception, runs, creator, createCalls,
                   handlerVars, jsonVars>>

\* lines 33-36: the blocking call returns, or raises
InvokeReturns ==
    /\ pc = "invoking"
    /\ \E e \in InvokeOutcomes :
        /\ invokeExc' = e
        /\ resp' = IF e = "none" THEN RunFunction(TheFunction, sent) ELSE resp
        /\ pc' = IF e = "none" THEN "decode" ELSE after_invoke_error
        /\ exception' = IF e = "none" THEN "none" ELSE e
    /\ UNCHANGED <<functions, code_bytes, response, sent, data, stdout, createExc,
                   runs, creator, createCalls, invokeCalls, handlerVars, jsonVars>>

\* lines 37-38: the response is decoded and printed
Decode ==
    /\ pc = "decode"
    /\ LET r == json_loads(resp) IN
        /\ data' = r.ret
        /\ stdout' = IF r.returned
                     THEN Append(stdout, [text |-> "Lambda response:", arg |-> r.ret])
                     ELSE stdout
        /\ pc' = IF r.returned THEN "done" ELSE "failed"
        /\ exception' = IF r.returned THEN "none" ELSE r.exc
    /\ UNCHANGED <<functions, code_bytes, response, sent, resp, createExc, invokeExc,
                   runs, creator, createCalls, invokeCalls, handlerVars, jsonVars>>

Next == StartRun \/ CreateFunction \/ IssueInvoke \/ InvokeReturns \/ Decode

Spec == InitInvoker /\ [][Next]_vars

(***************************************************************************)
(* Properties of the handlers (SpecHandler).                               *)
(***************************************************************************)
\* a == b on dicts: the same keys with the same values, in any order
DictEq(a, b) ==
    /\ DictKeys(a) = DictKeys(b)
    /\ \A k \in DictKeys(a) : DictAt(a, k) = DictAt(b, k)

EchoKeys == {K_correlationID, K_message}

HasBoth(d) == DictHas(d, K_correlationID) /\ DictHas(d, K_message)

\* out is a returned dict holding exactly the two keys, each with the
\* event's own value
EchoesExactly(out, ev) ==
    /\ out.returned
    /\ Len(out.ret) = 2
    /\ DictKeys(out.ret) = EchoKeys
    /\ \A k \in EchoKeys : DictAt(out.ret, k) = DictAt(ev, k)

\* C1: on every event that holds both message and correlationID, each
\* handler returns a dict whose keys are exactly correlationID and message,
\* each with the event's value, nothing else of the event; so the two
\* handlers return equal dicts.
C1_EchoExactly ==
    HasBoth(event) =>
        /\ strictOut # NotCalled => EchoesExactly(strictOut, event)
        /\ loggingOut # NotCalled => EchoesExactly(loggingOut, event)
        /\ (strictOut # NotCalled /\ loggingOut # NotCalled)
              => DictEq(strictOut.ret, loggingOut.ret)

\* both handlers have returned on an event with non-empty message and
\* correlationID and one more field
C1_Witness ==
    /\ HasBoth(event)
    /\ DictHas(event, K_extra)
    /\ \A k \in EchoKeys : DictAt(event, k).t = "str" /\ DictAt(event, k).s # <<>>
    /\ strictOut.returned
    /\ loggingOut.returned

NullEcho == << <<K_correlationID, PyNone>>, <<K_message, PyNone>> >>

\* C3: on the empty event the strict handler raises KeyError and returns
\* nothing; the logging handler does not raise and returns
\* {correlationID: None, message: None}.
C3_EmptyEvent ==
    Len(event) = 0 =>
        /\ strictOut # NotCalled =>
              ~strictOut.returned /\ strictOut.exc = "KeyError"
        /\ loggingOut # NotCalled =>
              /\ loggingOut.returned
              /\ loggingOut.exc = "none"
              /\ Len(loggingOut.ret) = 2
              /\ DictEq(loggingOut.ret, NullEcho)

C3_Witness ==
    /\ Len(event) = 0
    /\ strictOut.exc = "KeyError"
    /\ loggingOut.returned

OneAbsent(d) == DictHas(d, K_correlationID) # DictHas(d, K_message)

AbsentKey(d) == IF DictHas(d, K_correlationID) THEN K_message ELSE K_correlationID

\* C9: when exactly one of the two keys is absent, the strict handler
\* raises KeyError for it and returns nothing; the logging handler returns,
\* with None for the absent key and the event's value for the present one.
C9_OneKeyAbsent ==
    OneAbsent(event) =>
        /\ strictOut # NotCalled =>
              /\ ~strictOut.returned
              /\ strictOut.ret = <<>>
              /\ strictOut.exc = "KeyError"
              /\ strictOut.key = AbsentKey(event)
        /\ loggingOut # NotCalled =>
              /\ loggingOut.returned
              /\ DictKeys(loggingOut.ret) = EchoKeys
              /\ DictAt(loggingOut.ret, AbsentKey(event)) = PyNone
              /\ \A k \in EchoKeys \ {AbsentKey(event)} :
                    DictAt(loggingOut.ret, k) = DictAt(event, k)

\* message is present with a str value, correlationID absent, both called
C9_Witness ==
    /\ DictHas(event, K_message)
    /\ ~DictHas(event, K_correlationID)
    /\ DictAt(event, K_message).t = "str"
    /\ strictOut.exc = "KeyError"
    /\ loggingOut.returned

(***************************************************************************)
(* Property of the serialization (SpecJson).                               *)
(***************************************************************************)
\* C7: a payload with str message and correlationID, serialized with
\* json.dumps and decoded with json.loads, comes back as a dict with the
\* same keys and the same values.
C7_RoundTrip ==
    jpc = "done" =>
        /\ decoded.returned
        /\ Len(decoded.ret) = Len(obj)
        /\ DictEq(decoded.ret, obj)

\* a payload whose message holds a quote and a backslash has made the trip
C7_Witness ==
    /\ jpc = "done"
    /\ DictAt(obj, K_message).s = <<"\"", "\\">>
    /\ decoded.returned

(***************************************************************************)
(* Properties of the invoker (Spec).                                       *)
(***************************************************************************)
Conflict == "ResourceConflictException"

\* the run has gone on to the invoke step
ReachedInvoke ==
    \/ pc \in {"invoke", "invoking", "decode", "done"}
    \/ pc = "failed" /\ invokeCalls = 1

ConflictLogged == \E i \in 1..Len(stdout) : stdout[i] = on_conflict_print

ResponsePrinted == \E i \in 1..Len(stdout) : stdout[i].text = "Lambda response:"

\* the function was created by an earlier run, and this run has made its
\* create attempt
LaterAttempt == creator # 0 /\ creator < runs /\ createExc # "notcalled"

Expected ==
    << <<K_correlationID, PyStr(<<"1","2","3">>)>>,
       <<K_message, PyStr(<<"h","e","l","l","o"," ","w","o","r","l","d">>)>> >>

\* C4: a run that completes has decoded the response
\* {correlationID: "123", message: "hello world"} and printed it, whether it
\* created the function itself or found it there.
C4_EndToEnd ==
    pc = "done" =>
        /\ Len(data) = 2
        /\ DictEq(data, Expected)
        /\ stdout[Len(stdout)] = [text |-> "Lambda response:", arg |-> data]
        /\ creator \in 1..runs

\* a run completed on a function that an earlier run created from another
\* archive
C4_Witness ==
    /\ pc = "done"
    /\ creator < runs
    /\ createExc = Conflict
    /\ TheFunction.Code # code_bytes
    /\ DictEq(data, Expected)

\* C5: a create failure other than the conflict is not caught: the run has
\* failed with it, no invoke was issued and no response printed; an invoke
\* failure is not caught either; and a run goes past the create step only
\* after success or the conflict.
C5_OtherFailuresFatal ==
    /\ createExc \notin {"notcalled", "none", Conflict} =>
          /\ pc = "failed"
          /\ exception = createExc
          /\ invokeCalls = 0
          /\ invokeExc = "notcalled"
          /\ ~ResponsePrinted
    /\ invokeExc \notin {"notcalled", "none"} =>
          /\ pc = "failed"
          /\ exception = invokeExc
          /\ ~ResponsePrinted
    /\ ReachedInvoke => createExc \in {"none", Conflict}

\* a create attempt on an existing function failed for another reason
C5_Witness ==
    /\ createExc \in Faults
    /\ Exists
    /\ pc = "failed"

\* C6: once the function exists, no step changes or removes it.
C6_FunctionImmutable == [][Exists => functions' = functions]_vars

\* a run whose archive differs from the deployed one got the conflict and
\* completed its invoke
C6_Witness ==
    /\ Exists
    /\ createExc = Conflict
    /\ TheFunction.Code # code_bytes
    /\ invokeExc = "none"
    /\ ConflictLogged

\* C8: a run makes exactly one create attempt and at most one invoke call:
\* never more than one of either, one create attempt once the run is past
\* that step, one invoke call when the run completes.
C8_OneCallEach ==
    /\ createCalls <= 1
    /\ invokeCalls <= 1
    /\ pc \in {"invoke", "invoking", "decode", "done", "failed"} => createCalls = 1
    /\ pc \in {"idle", "create"} => createCalls = 0 /\ invokeCalls = 0
    /\ pc \in {"invoking", "decode", "done"} => invokeCalls = 1

\* a run ended on a failed invoke
C8_Witness ==
    /\ pc = "failed"
    /\ invokeExc \in Faults
    /\ createCalls = 1
    /\ invokeCalls = 1

\* C10: an invoke is in progress only after the create attempt of the same
\* run returned or got the conflict, and then the function exists; a run
\* starts with nothing of an earlier run but the service's functions.
C10_InvokeAfterCreate ==
    /\ (pc = "invoking" \/ invokeCalls > 0) =>
          /\ createCalls = 1
          /\ createExc \in {"none", Conflict}
    /\ pc = "invoking" => Exists
    /\ pc = "create" =>
          /\ response = "unset"
          /\ sent = <<>> /\ resp = <<>> /\ data = <<>> /\ stdout = <<>>
          /\ createExc = "notcalled" /\ invokeExc = "notcalled"
          /\ exception = "none"

\* an invoke is in progress in a second run, on the function of the first
C10_Witness ==
    /\ pc = "invoking"
    /\ runs >= 2
    /\ createExc = Conflict
    /\ Exists

=============================================================================
